---- MODULE Spec2Model ----
(***************************************************************************)
(* Model of nattyc (python/nattyc/main.py): the prompt builder, the code   *)
(* validator and the generate / write / validate / feedback retry loop of  *)
(* main.                                                                   *)
(*                                                                         *)
(* Text is modelled as a sequence of pieces.  A piece is either one        *)
(* character of generated code or one fixed chunk of template / diagnostic *)
(* text; string concatenation is \o and substring search is Contains.      *)
(* An optional value (Python's `x | None`) is a sequence of length <= 1:   *)
(* None is <<>> and a present value v is <<v>>.                            *)
(***************************************************************************)
EXTENDS Integers, Sequences, FiniteSets, TLC

VARIABLES
    pc,                \* position in main: "cli","start","loop","write","validate","after","done"
    language,          \* --language
    target_type,       \* --target_type
    dep_files_contents,\* read_dependencies(dep_file): sequence of <<name, content>>
    dep_docs_contents, \* read_dependencies(dep_doc)
    resource_file,     \* --resource_file: sequence of paths
    env_api_key,       \* os.environ.get(api_key_env_var): optional string
    system_prompt,     \* main's system_prompt
    retries,           \* main's retries
    success,           \* main's success
    validation_result, \* main's validation_result: optional ValidationResult
    response,          \* main's response: optional GenerationResult
    generated_code,    \* main's generated_code
    output_artifact,   \* content of output_file on disk: optional text
    last_request,      \* arguments of the most recent call_llm: optional record
    llm_calls,         \* number of call_llm invocations
    validator_calls,   \* number of validate_generated_code invocations
    javac_runs,        \* number of subprocess.run(javac) invocations
    writes,            \* number of writes of output_file
    last_validation,   \* the ValidationResult most recently returned by the validator: optional
    last_javac,        \* outcome of the compiler run of the most recent validator call: optional
    raised,            \* exception that left main's try block, "" if none
    error_log,         \* last logger.error line: optional text
    exit_code,         \* process exit status, -1 while running
    probe              \* a single call of a pure function under study: optional
                       \* [fn, args, result]; None throughout a session of main

vars == <<pc, language, target_type, dep_files_contents, dep_docs_contents,
          resource_file, env_api_key, system_prompt, retries, success,
          validation_result, response, generated_code, output_artifact,
          last_request, llm_calls, validator_calls, javac_runs, writes,
          last_validation, last_javac, raised, error_log, exit_code, probe>>

----------------------------------------------------------------------------
(* Text helpers *)

None == <<>>

Some(v) == <<v>>

\* needle in hay (Python's `in` on str)
Contains(hay, needle) ==
    \E i \in 0..(Len(hay) - Len(needle)) :
        SubSeq(hay, i + 1, i + Len(needle)) = needle

\* mutant: the tab is not taken for whitespace
Whitespace_NoTab == {" ", "\n"}

Whitespace == {" ", "\n", "\t"}

\* str.strip()
RECURSIVE LStrip(_)
LStrip(s) ==
    IF s # <<>> /\ Head(s) \in Whitespace THEN LStrip(Tail(s)) ELSE s

RECURSIVE RStrip(_)
RStrip(s) ==
    IF s # <<>> /\ s[Len(s)] \in Whitespace
    THEN RStrip(SubSeq(s, 1, Len(s) - 1))
    ELSE s

strip(s) == RStrip(LStrip(s))

----------------------------------------------------------------------------
(* Language *)

PYTHON == "python"

JAVA == "java"

SupportedLanguages == {PYTHON, JAVA}

----------------------------------------------------------------------------
(* pathlib.Path: a path is [parent, stem, suffix] *)

PathStr(p) == <<p.parent, "/", p.stem, p.suffix>>

PathName(p) == <<p.stem, p.suffix>>

PathStem(p) == <<p.stem>>

----------------------------------------------------------------------------
(* construct_system_prompt *)

\* for name, content in dep_files_contents.items(): "# Dependency: ..."
RECURSIVE DependencyBlocks(_)
DependencyBlocks(deps) ==
    IF deps = <<>> THEN <<>>
    ELSE <<"# Dependency: ", Head(deps)[1], "\n", Head(deps)[2], "\n---\n">>
         \o DependencyBlocks(Tail(deps))

\* for name, content in dep_doc_contents.items(): "# Documentation: ..."
RECURSIVE DocumentationBlocks(_)
DocumentationBlocks(docs) ==
    IF docs = <<>> THEN <<>>
    ELSE <<"# Documentation: ", Head(docs)[1], "\n", Head(docs)[2], "\n---\n">>
         \o DocumentationBlocks(Tail(docs))

\* for resource_path in resource_files: "# Resource file: {name}\n"
RECURSIVE ResourceLines(_)
ResourceLines(rs) ==
    IF rs = <<>> THEN <<>>
    ELSE (<<"# Resource file: ">> \o PathName(Head(rs)) \o <<"\n">>)
         \o ResourceLines(Tail(rs))

\* Python: resource_instruction += f"- {str(resource_path)}\n"
RECURSIVE PyResourceItems(_)
PyResourceItems(rs) ==
    IF rs = <<>> THEN <<>>
    ELSE (<<"- ">> \o PathStr(Head(rs)) \o <<"\n">>) \o PyResourceItems(Tail(rs))

\* Java: "For resource '...', use:\nInputStream is = X.class.getResourceAsStream(...)"
RECURSIVE JavaResourceItems(_, _)
JavaResourceItems(rs, class_name) ==
    IF rs = <<>> THEN <<>>
    ELSE (<<"For resource '">> \o PathStr(Head(rs))
            \o <<"', use:\nInputStream is = ">> \o class_name
            \o <<".class.getResourceAsStream(/">> \o PathStr(Head(rs))
            \o <<");\n\n">>)
         \o JavaResourceItems(Tail(rs), class_name)

dependencies_section(lang, deps) ==
    IF deps = <<>> THEN <<>>
    ELSE (IF lang = PYTHON THEN <<"\n\nThe following Python code snippets are dependencies ...\n\n">>
          ELSE IF lang = JAVA THEN <<"\n\nThe following Java code snippets are dependencies ...\n\n">>
          ELSE <<>>)
         \o DependencyBlocks(deps)

documentation_section(docs) ==
    IF docs = <<>> THEN <<>>
    ELSE <<"\n\nThe following is collected documentation ...\n\n">>
         \o DocumentationBlocks(docs)

resource_files_section(rs) ==
    IF rs = <<>> THEN <<>>
    ELSE <<"\n\nThe following resource files will be available to the generated program:\n\n">>
         \o ResourceLines(rs)

PyIntro == <<"You are a helpful assistant that translates English descriptions into Python code.">>

JavaIntro == <<"You are a helpful assistant that translates English descriptions into Java code.">>

PyBinaryInstruction == <<"\nCRITICAL: You MUST create an executable Python program with a __main__ block.\n">>

JavaBinaryInstruction(class_name) ==
    <<"\nCRITICAL: This is a Java executable. Your code MUST include a public static void main(String[] args) method in the ">>
    \o class_name \o <<" class.\nThe main method should serve as the entry point ...\n">>

class_instruction(class_name) ==
    <<"\nCRITICAL: You MUST name the primary public class '">> \o class_name
    \o <<"' to match the output file name. \nThis is a strict Java requirement when the class is defined in a file named '">>
    \o class_name \o <<".java'.\n">>

package_instruction(package) ==
    <<"\nCRITICAL: The Java code MUST start with 'package ", package,
      ";' as the first line of the file (after any comments).\nThis package declaration is required ...\n">>

PyRequirements(rs, tt) ==
    <<"\nRequirements for the generated code:\n1. Add proper type hints ... 6. Ensure the code is well-structured and follows best practices">>
    \o (IF rs = <<>> THEN <<>>
        ELSE <<"\nCRITICAL: When accessing resource files, you should read them using appropriate file handling methods.\nThe following resource files are available:\n\n">>
             \o PyResourceItems(rs))
    \o (IF tt = "binary" THEN PyBinaryInstruction ELSE <<>>)
    \o <<"\n\nGenerate Python code for the natural language description the user will provide.\n">>

JavaRequirements(rs, tt, out, package) ==
    <<"\nRequirements for the generated code:\n1. Use Java 8 features ... 4. Follow Java naming conventions (camelCase for variables/methods, PascalCase for classes)">>
    \o class_instruction(PathStem(out))
    \o package_instruction(package)
    \o <<"\n5. Ensure imports come after the package declaration\n6. Ensure the code is well-structured and follows best practices">>
    \o (IF rs = <<>> THEN <<>>
        ELSE <<"\nCRITICAL: When accessing resource files, you MUST use the following method to load each resource as an InputStream:\n\n">>
             \o JavaResourceItems(rs, PathStem(out)))
    \o (IF tt = "binary" THEN JavaBinaryInstruction(PathStem(out)) ELSE <<>>)
    \o <<"\n\nGenerate Java code for the natural language description the user will provide.\n">>

\* mutant: the documentation section is put before the dependencies section
construct_system_prompt_DocsFirst(lang, deps, docs, out, package, rs, tt) ==
    IF lang = PYTHON THEN
        [raised |-> "",
         value  |-> PyIntro \o documentation_section(docs)
                    \o dependencies_section(lang, deps)
                    \o resource_files_section(rs)
                    \o PyRequirements(rs, tt)]
    ELSE IF lang = JAVA THEN
        [raised |-> "",
         value  |-> JavaIntro \o documentation_section(docs)
                    \o dependencies_section(lang, deps)
                    \o resource_files_section(rs)
                    \o JavaRequirements(rs, tt, out, package)]
    ELSE [raised |-> "ValueError", value |-> <<"Unsupported language: ", lang>>]

\* Result: [raised |-> "" or "ValueError", value |-> the prompt text]
construct_system_prompt(lang, deps, docs, out, package, rs, tt) ==
    IF lang = PYTHON THEN
        [raised |-> "",
         value  |-> PyIntro \o dependencies_section(lang, deps)
                    \o documentation_section(docs)
                    \o resource_files_section(rs)
                    \o PyRequirements(rs, tt)]
    ELSE IF lang = JAVA THEN
        [raised |-> "",
         value  |-> JavaIntro \o dependencies_section(lang, deps)
                    \o documentation_section(docs)
                    \o resource_files_section(rs)
                    \o JavaRequirements(rs, tt, out, package)]
    ELSE [raised |-> "ValueError", value |-> <<"Unsupported language: ", lang>>]

----------------------------------------------------------------------------
(* Generated code: a sequence of characters *)

CodeBlank == <<" ">>

CodeAssign == <<"x", "=", "1">>

CodeUnclosed == <<"x", "=", "(">>

CodeClass == <<"c", "l", "a", "s", "s", " ", "A", "{", "}">>

CodeEmpty == <<>>

CodeNewlineTab == <<"\n", "\t">>

CodeIndented == <<" ", "x", "=", "1">>

CodeEnum == <<"e", "n", "u", "m", " ", "E", "{", "}">>

CodeInterface == <<"i", "n", "t", "e", "r", "f", "a", "c", "e", " ", "I", "{", "}">>

CodeClassy == <<"c", "l", "a", "s", "s", "y">>

\* the candidate codes the LLM may return
Codes == {CodeBlank, CodeAssign, CodeUnclosed, CodeClass}

----------------------------------------------------------------------------
(* validate_generated_code *)

ValidationResult(is_valid, error_message) ==
    [is_valid |-> is_valid, error_message |-> error_message]

\* mutant: the code is stripped before it is compiled
py_compile_Stripped(code) ==
    IF strip(code) \in {CodeAssign, CodeClassy} THEN None
    ELSE IF strip(code) = CodeUnclosed THEN Some(<<"'(' was never closed (<string>, line 1)">>)
    ELSE Some(<<"invalid syntax (<string>, line 1)">>)

\* compile(code, "<string>", "exec"): None, or str(e) of the SyntaxError.
\* The verdicts are those of the CPython parser on these code strings.
py_compile(code) ==
    IF code \in {CodeAssign, CodeClassy} THEN None
    ELSE IF code = CodeUnclosed THEN Some(<<"'(' was never closed (<string>, line 1)">>)
    ELSE IF code = CodeIndented THEN Some(<<"unexpected indent (<string>, line 1)">>)
    ELSE Some(<<"invalid syntax (<string>, line 1)">>)

KwClass == <<"c", "l", "a", "s", "s", " ">>

KwInterface == <<"i", "n", "t", "e", "r", "f", "a", "c", "e", " ">>

KwEnum == <<"e", "n", "u", "m", " ">>

\* mutant: the keywords are searched without their trailing space
HasTypeKeyword_NoSpace(code) ==
    \/ Contains(code, SubSeq(KwClass, 1, Len(KwClass) - 1))
    \/ Contains(code, SubSeq(KwInterface, 1, Len(KwInterface) - 1))
    \/ Contains(code, SubSeq(KwEnum, 1, Len(KwEnum) - 1))

\* "class " in code or "interface " in code or "enum " in code
HasTypeKeyword(code) ==
    \/ Contains(code, KwClass)
    \/ Contains(code, KwInterface)
    \/ Contains(code, KwEnum)

EmptyCodeMessage == <<"Generated code is empty.">>

JavaPrecheckMessage == <<"Java code must contain at least one class, interface, or enum.">>

\* what subprocess.run(["javac", ...]) can do: fail to launch, or complete
\* with an exit status and the two captured streams
JavacOutcomes ==
    {[launch_error |-> TRUE, returncode |-> 0, stdout |-> <<>>, stderr |-> <<>>],
     [launch_error |-> FALSE, returncode |-> 0, stdout |-> <<>>, stderr |-> <<>>]}
    \cup
    {[launch_error |-> FALSE, returncode |-> 1, stdout |-> o,
      stderr |-> <<"Foo.java:1: error: ';' expected">>] :
        o \in {<<>>, <<"Note: Foo.java uses unchecked operations.">>}}

\* mutant: the captured stdout is left out of the message
JavacErrorMessage_StderrOnly(javac) ==
    <<"Java compilation failed:\n">>
    \o (IF javac.stderr # <<>>
        THEN <<"Compiler stderr: ">> \o javac.stderr ELSE <<>>)

\* error_message built at main.py:264-268
JavacErrorMessage(javac) ==
    <<"Java compilation failed:\n">>
    \o (IF javac.stdout # <<>>
        THEN <<"Compiler stdout: ">> \o javac.stdout \o <<"\n">> ELSE <<>>)
    \o (IF javac.stderr # <<>>
        THEN <<"Compiler stderr: ">> \o javac.stderr ELSE <<>>)

\* mutant: the exception branch returns an invalid result without a message
java_compile_ExceptionNoMessage(javac) ==
    IF javac.launch_error
    THEN ValidationResult(FALSE, None)
    ELSE IF javac.returncode # 0
    THEN ValidationResult(FALSE, Some(JavacErrorMessage(javac)))
    ELSE ValidationResult(TRUE, None)

\* mutant: a compiler that cannot be launched is taken for a clean compile
java_compile_LaunchErrorValid(javac) ==
    IF javac.launch_error \/ javac.returncode = 0
    THEN ValidationResult(TRUE, None)
    ELSE ValidationResult(FALSE, Some(JavacErrorMessage(javac)))

\* the try/except around subprocess.run, main.py:243-283
java_compile(javac) ==
    IF javac.launch_error
    THEN ValidationResult(FALSE,
            Some(<<"Error during Java compilation: ", "[Errno 2] No such file or directory: 'javac'">>))
    ELSE IF javac.returncode # 0
    THEN ValidationResult(FALSE, Some(JavacErrorMessage(javac)))
    ELSE ValidationResult(TRUE, None)

\* mutant: an unsupported language is reported as an invalid result
unsupported_language_AsResult(lang) ==
    [raised |-> "",
     result |-> ValidationResult(FALSE, Some(<<"Unsupported language: ", lang>>)),
     parsed |-> FALSE, compiled |-> FALSE]

\* `raise ValueError(f"Unsupported language: {language}")` at main.py:294;
\* no ValidationResult is returned, the result field is a placeholder
unsupported_language(lang) ==
    [raised |-> "ValueError", result |-> ValidationResult(FALSE, None),
     parsed |-> FALSE, compiled |-> FALSE]

\* Result: [raised, result, parsed, compiled]: the exception raised ("" if
\* none), the ValidationResult returned (when none is raised), and whether
\* the Python parser / the external compiler was invoked.
validate_generated_code(code, lang, out, javac) ==
    IF strip(code) = <<>> THEN
        [raised |-> "", result |-> ValidationResult(FALSE, Some(EmptyCodeMessage)),
         parsed |-> FALSE, compiled |-> FALSE]
    ELSE IF lang = PYTHON THEN
        [raised |-> "",
         result |-> IF py_compile(code) = None
                    THEN ValidationResult(TRUE, None)
                    ELSE ValidationResult(FALSE,
                            Some(<<"Python syntax error: ">> \o py_compile(code)[1])),
         parsed |-> TRUE, compiled |-> FALSE]
    ELSE IF lang = JAVA THEN
        IF ~HasTypeKeyword(code) THEN
            [raised |-> "", result |-> ValidationResult(FALSE, Some(JavaPrecheckMessage)),
             parsed |-> FALSE, compiled |-> FALSE]
        ELSE IF out # None THEN
            [raised |-> "", result |-> java_compile(javac),
             parsed |-> FALSE, compiled |-> TRUE]
        ELSE
            [raised |-> "",
             result |-> IF HasTypeKeyword(code)
                        THEN ValidationResult(TRUE, None)
                        ELSE ValidationResult(FALSE, Some(JavaPrecheckMessage)),
             parsed |-> FALSE, compiled |-> FALSE]
    ELSE unsupported_language(lang)

----------------------------------------------------------------------------
(* Session inputs that main receives from the command line *)

max_retries == 5

MaxOutputTokens == 8192

\* --temperature default 0.2, in tenths
TemperatureTenths == 2

ApiKeyEnvVar == "LLM_API_KEY"

LlmModel == "gemini-2.0-flash-001"

Package == "pkg.gen"

EnglishText == <<"write a function that adds two integers">>

OutputFile == [parent |-> "out", stem |-> "Foo", suffix |-> ".java"]

DepFile == <<"dep/Util.java", "class Util {}">>

DepDoc == <<"doc/notes.md", "Util adds integers.">>

ResourceFile == [parent |-> "res", stem |-> "data", suffix |-> ".txt"]

\* values of the API-key environment variable: unset, empty, set
ApiKeyValues == {None, Some(""), Some("secret")}

\* exceptions call_llm raises: transport / parse failure, safety filtering
LlmErrors == {"GenerationError", "ContentFilteredError"}

\* what `await call_llm(...)` can do: return a parsed GeneratedCode, or raise
LlmOutcomes ==
    {[raised |-> "", code |-> c] : c \in Codes}
    \cup {[raised |-> e, code |-> <<>>] : e \in LlmErrors}

----------------------------------------------------------------------------
(* main *)

Init ==
    /\ pc = "cli"
    /\ language \in {PYTHON, JAVA, "ruby"}
    /\ \E full \in BOOLEAN :
        /\ target_type = IF full THEN "binary" ELSE "library"
        /\ dep_files_contents = IF full THEN <<DepFile>> ELSE <<>>
        /\ dep_docs_contents = IF full THEN <<DepDoc>> ELSE <<>>
        /\ resource_file = IF full THEN <<ResourceFile>> ELSE <<>>
    /\ env_api_key \in ApiKeyValues
    /\ system_prompt = <<>>
    /\ retries = 0
    /\ success = FALSE
    /\ validation_result = None
    /\ response = None
    /\ generated_code = <<>>
    /\ output_artifact = None
    /\ last_request = None
    /\ llm_calls = 0
    /\ validator_calls = 0
    /\ javac_runs = 0
    /\ writes = 0
    /\ last_validation = None
    /\ last_javac = None
    /\ raised = ""
    /\ error_log = None
    /\ exit_code = -1
    /\ probe = None

Config == <<language, target_type, dep_files_contents, dep_docs_contents,
            resource_file, env_api_key>>

\* click.Choice([Language.PYTHON, Language.JAVA]) on --language: a value
\* outside the choice is a usage error (exit status 2) and main's body never runs
ClickParse ==
    /\ pc = "cli"
    /\ IF language \in SupportedLanguages
       THEN /\ pc' = "start"
            /\ UNCHANGED exit_code
       ELSE /\ pc' = "done"
            /\ exit_code' = 2
    /\ UNCHANGED <<probe, Config, system_prompt, retries, success, validation_result,
                   response, generated_code, output_artifact, last_request,
                   llm_calls, validator_calls, javac_runs, writes,
                   last_validation, last_javac, raised, error_log>>

\* mutant: the handler logs the exception and lets the loop go on
ExceptHandler_Swallow(exc, message) ==
    /\ raised' = exc
    /\ error_log' = Some(<<"Error: ">> \o message)
    /\ exit_code' = exit_code
    /\ pc' = "loop"

\* `except Exception as e: logger.error(f"Error: {str(e)}"); sys.exit(1)`
ExceptHandler(exc, message) ==
    /\ raised' = exc
    /\ error_log' = Some(<<"Error: ">> \o message)
    /\ exit_code' = 1
    /\ pc' = "done"

\* mutant: `if api_key is None`, an empty key passes
ApiKeyMissing_NoneOnly(key) == key = None

\* `if not api_key`
ApiKeyMissing(key) == key = None \/ key[1] = ""

\* main.py:447-479: build the prompt, read the API key, initialise the loop
Start ==
    /\ pc = "start"
    /\ LET p == construct_system_prompt(language, dep_files_contents,
                    dep_docs_contents, OutputFile, Package, resource_file,
                    target_type)
       IN IF p.raised # ""
          THEN /\ ExceptHandler(p.raised, p.value)
               /\ UNCHANGED system_prompt
          ELSE IF ApiKeyMissing(env_api_key)
          THEN /\ system_prompt' = p.value
               /\ error_log' = Some(<<"Error: ", ApiKeyEnvVar,
                                      " environment variable not set.">>)
               /\ exit_code' = 1
               /\ pc' = "done"
               /\ UNCHANGED raised
          ELSE /\ system_prompt' = p.value
               /\ pc' = "loop"
               /\ UNCHANGED <<raised, error_log, exit_code>>
    /\ retries' = 0
    /\ success' = FALSE
    /\ validation_result' = None
    /\ response' = None
    /\ UNCHANGED <<probe, Config, generated_code, output_artifact, last_request,
                   llm_calls, validator_calls, javac_runs, writes,
                   last_validation, last_javac>>

\* mutant: the guard lets one more iteration through
LoopGuard_OneMore == retries <= max_retries + 1

\* mutant: the guard stops one iteration early
LoopGuard_Strict == retries < max_retries

\* `while retries <= max_retries`
LoopGuard == retries <= max_retries

Request(prompt) ==
    [system_prompt |-> prompt,
     english_description |-> EnglishText,
     model_name |-> LlmModel,
     api_key |-> env_api_key[1],
     response_schema |-> "GeneratedCode",
     temperature |-> TemperatureTenths,
     max_output_tokens |-> MaxOutputTokens]

\* main.py:481-492: loop guard holds, call the LLM, take generated_code
CallLLM ==
    /\ pc = "loop"
    /\ LoopGuard
    /\ last_request' = Some(Request(system_prompt))
    /\ llm_calls' = llm_calls + 1
    /\ \E o \in LlmOutcomes :
        IF o.raised # ""
        THEN /\ ExceptHandler(o.raised, <<o.raised>>)
             /\ UNCHANGED <<response, generated_code>>
        ELSE /\ response' = Some([generated_code |-> o.code, usage |-> "usage"])
             /\ generated_code' = o.code
             /\ pc' = "write"
             /\ UNCHANGED <<raised, error_log, exit_code>>
    /\ UNCHANGED <<probe, Config, system_prompt, retries, success, validation_result,
                   output_artifact, validator_calls, javac_runs, writes,
                   last_validation, last_javac>>

\* main.py:481: loop guard fails, leave the loop
ExitLoop ==
    /\ pc = "loop"
    /\ ~LoopGuard
    /\ pc' = "after"
    /\ UNCHANGED <<probe, Config, system_prompt, retries, success, validation_result,
                   response, generated_code, output_artifact, last_request,
                   llm_calls, validator_calls, javac_runs, writes,
                   last_validation, last_javac, raised, error_log, exit_code>>

PythonHeader ==
    <<"# Usage: Import from this package using the following:\n",
      "# from ", Package, " import <name to import>\n\n">>

\* mutant: the import header is written for every language
ArtifactContent_HeaderAlways(lang, code) == PythonHeader \o code

\* what main.py:496-501 leaves in output_file
ArtifactContent(lang, code) ==
    (IF lang = PYTHON THEN PythonHeader ELSE <<>>) \o code

\* mutant: the file is only written when it does not exist yet
WriteOutput_FirstOnly ==
    /\ pc = "write"
    /\ output_artifact' = IF output_artifact = None
                          THEN Some(ArtifactContent(language, generated_code))
                          ELSE output_artifact
    /\ writes' = writes + 1
    /\ pc' = "validate"
    /\ UNCHANGED <<probe, Config, system_prompt, retries, success, validation_result,
                   response, generated_code, last_request, llm_calls,
                   validator_calls, javac_runs, last_validation, last_javac,
                   raised, error_log, exit_code>>

\* main.py:494-501: write the candidate code to output_file
WriteOutput ==
    /\ pc = "write"
    /\ output_artifact' = Some(ArtifactContent(language, generated_code))
    /\ writes' = writes + 1
    /\ pc' = "validate"
    /\ UNCHANGED <<probe, Config, system_prompt, retries, success, validation_result,
                   response, generated_code, last_request, llm_calls,
                   validator_calls, javac_runs, last_validation, last_javac,
                   raised, error_log, exit_code>>

\* main.py:524-538 (<code fence> stands for the three-backquote line)
error_feedback(error_message, code) ==
    <<"\n\nIMPORTANT: Your previous attempt at generating code failed validation with the following error:\n\n">>
    \o error_message
    \o <<"\n\nHere is your previous code that needs to be fixed:\n\n<code fence>\n">>
    \o code
    \o <<"\n<code fence>\n\nPlease fix the issues and provide a COMPLETE implementation of the code, not just the changes.\nMake sure your code handles the errors mentioned above.\n">>

\* mutant: the `break` is missing, control returns to the loop guard
AfterBreak_NoBreak == "loop"

\* mutant: `system_prompt = error_feedback`, the prompt is overwritten
AppendFeedback_Overwrite(prompt, feedback) == feedback

\* `system_prompt = system_prompt + error_feedback` at main.py:540
AppendFeedback(prompt, feedback) == prompt \o feedback

\* where `break` at main.py:516 leaves control: after the loop
AfterBreak == "after"

\* mutant: `if retries <= max_retries`, feedback after every failure
RetriesLeft_Inclusive(r) == r <= max_retries

\* `if retries < max_retries` at main.py:523
RetriesLeft(r) == r < max_retries

\* main.py:503-540: validate, break on success, else count the retry and
\* append the feedback
Validate ==
    /\ pc = "validate"
    /\ \E javac \in JavacOutcomes :
        LET v == IF language = JAVA
                 THEN validate_generated_code(generated_code, language,
                                              Some(OutputFile), javac)
                 ELSE validate_generated_code(generated_code, language,
                                              None, javac)
        IN /\ validator_calls' = validator_calls + 1
           /\ javac_runs' = javac_runs + (IF v.compiled THEN 1 ELSE 0)
           /\ last_javac' = IF v.compiled THEN Some(javac) ELSE None
           /\ IF v.raised # ""
              THEN /\ ExceptHandler(v.raised, <<"Unsupported language: ", language>>)
                   /\ UNCHANGED <<validation_result, last_validation, success,
                                  retries, system_prompt>>
              ELSE /\ validation_result' = Some(v.result)
                   /\ last_validation' = Some(v.result)
                   /\ UNCHANGED <<raised, error_log, exit_code>>
                   /\ IF v.result.is_valid
                      THEN /\ success' = TRUE
                           /\ pc' = AfterBreak
                           /\ UNCHANGED <<retries, system_prompt>>
                      ELSE /\ retries' = retries + 1
                           /\ system_prompt' =
                                IF RetriesLeft(retries + 1)
                                THEN AppendFeedback(system_prompt,
                                        error_feedback(v.result.error_message[1],
                                                       generated_code))
                                ELSE system_prompt
                           /\ pc' = "loop"
                           /\ UNCHANGED success
    /\ UNCHANGED <<probe, Config, response, generated_code, output_artifact,
                   last_request, llm_calls, writes>>

\* mutant: the log line leaves the diagnostic out
ExhaustedMessage_NoDiagnostic(error_message) ==
    <<"Generated code failed validation after ", ToString(max_retries),
      " attempts.">>

\* text of logger.error at main.py:551-553
ExhaustedMessage(error_message) ==
    <<"Generated code failed validation after ", ToString(max_retries),
      " attempts. Last error: ">> \o error_message

\* mutant: the `sys.exit(1)` of the failure branch is missing
ExitStatus_NoFailureExit(ok) == IF ok THEN 0 ELSE 0

\* main.py:543-554: main returns normally on success, else `sys.exit(1)`
ExitStatus(ok) == IF ok THEN 0 ELSE 1

\* main.py:542-554: after the loop
Finish ==
    /\ pc = "after"
    /\ IF success
       THEN /\ exit_code' = ExitStatus(TRUE)
            /\ UNCHANGED error_log
       ELSE /\ error_log' = IF validation_result # None
                            THEN Some(ExhaustedMessage(validation_result[1].error_message[1]))
                            ELSE error_log
            /\ exit_code' = ExitStatus(FALSE)
    /\ pc' = "done"
    /\ UNCHANGED <<probe, Config, system_prompt, retries, success, validation_result,
                   response, generated_code, output_artifact, last_request,
                   llm_calls, validator_calls, javac_runs, writes,
                   last_validation, last_javac, raised>>

Next ==
    \/ ClickParse
    \/ Start
    \/ CallLLM
    \/ ExitLoop
    \/ WriteOutput
    \/ Validate
    \/ Finish

Spec == Init /\ [][Next]_vars

----------------------------------------------------------------------------
(* Terminal states of a session *)

\* the loop was left by `break`
Succeeded == pc \in {"after", "done"} /\ success

\* the loop was left because its guard failed
Exhausted == pc \in {"after", "done"} /\ ~success /\ raised = "" /\ llm_calls > 0

\* the compiler run of the most recent validator call could not be launched
CompilerLaunchFailed == last_javac # None /\ last_javac[1].launch_error

----------------------------------------------------------------------------
(* Properties *)

\* C1: with validation failing on every attempt the session ends Exhausted
\* after exactly max_retries failed attempts, and no generation call is
\* issued once retries has reached max_retries at the top of the loop.
C1_ExhaustedAfterMaxAttempts ==
    /\ (Exhausted => validator_calls = max_retries)
    /\ (pc = "write" => retries < max_retries)

\* C2: retries never exceeds max_retries, in any reachable state.
C2_AttemptCountBounded == retries <= max_retries

\* C3: every generation call after the first is passed a system prompt that
\* contains the error message of the preceding failed validation and the
\* generated code of the preceding attempt.
C3_RetryPromptCarriesFeedback ==
    [][(llm_calls >= 1 /\ llm_calls' = llm_calls + 1)
        => /\ Contains(last_request'[1].system_prompt,
                       validation_result[1].error_message[1])
           /\ Contains(last_request'[1].system_prompt, generated_code)]_vars

\* C4: when validation fails on attempts 1..k-1 and passes on attempt k, the
\* session is Succeeded after exactly k generation calls and k validator
\* calls, and no generation or validator call is made afterwards.
C4_SucceedsEarly ==
    /\ [](success => /\ Succeeded
                     /\ llm_calls = retries + 1
                     /\ validator_calls = llm_calls
                     /\ last_validation[1].is_valid)
    /\ [][success => /\ llm_calls' = llm_calls
                     /\ validator_calls' = validator_calls]_vars

C4_Witness == pc = "done" /\ success /\ retries = 1 /\ llm_calls = 2

\* C5 as stated: a generation call that raises consumes a retry and the loop
\* goes on to a further generation call.
C5_GenerationFailureRetried ==
    [][(llm_calls' = llm_calls + 1 /\ raised' \in LlmErrors)
        => (retries' = retries + 1 /\ pc' = "loop")]_vars

\* C5 amended: a generation call that raises ends the session at once: main
\* has exited with status 1, no retry was counted for the failed call and no
\* call follows it.
C5_GenerationFailureEndsSession ==
    raised \in LlmErrors
        => /\ pc = "done"
           /\ exit_code = 1
           /\ ~success
           /\ retries = llm_calls - 1
           /\ last_request = Some(Request(system_prompt))

C5_Witness == raised = "ContentFilteredError" /\ llm_calls = 3 /\ retries = 2

\* C6 as stated: a fatal error of either collaborator, a compiler that
\* cannot be launched included, leaves the loop at once as an exception.
C6_FatalErrorsPropagate ==
    /\ (raised # "" => pc = "done" /\ exit_code = 1)
    /\ (CompilerLaunchFailed => raised # "" /\ pc = "done")

\* C6 amended: an exception of the LLM call leaves the loop at once, with no
\* validator call, no write and no retry counted for it; a compiler that
\* cannot be launched is instead returned as an invalid ValidationResult
\* carrying "Error during Java compilation: ...", which counts as a retry.
C6_FatalErrorHandling ==
    /\ (raised # "" => /\ raised \in LlmErrors
                       /\ pc = "done"
                       /\ exit_code = 1
                       /\ validator_calls = llm_calls - 1
                       /\ writes = llm_calls - 1)
    /\ (CompilerLaunchFailed
          => /\ last_validation =
                  Some([is_valid |-> FALSE,
                        error_message |->
                            Some(<<"Error during Java compilation: ",
                                   "[Errno 2] No such file or directory: 'javac'">>)])
             /\ retries = validator_calls
             /\ retries >= 1)

C6_Witness == CompilerLaunchFailed /\ pc = "write" /\ raised = "" /\ retries = 2

\* C7: on every attempt the candidate code is written to the output file
\* before the validator is called, so at every validator call, between
\* attempts and at the end the file holds the code of the latest generation
\* result.
C7_ArtifactWrittenBeforeValidation ==
    /\ validator_calls <= writes
    /\ writes <= llm_calls
    /\ (pc = "validate"
          => /\ writes = llm_calls
             /\ validator_calls = writes - 1
             /\ output_artifact =
                  Some((IF language = PYTHON THEN PythonHeader ELSE <<>>)
                       \o response[1].generated_code))
    /\ (pc \in {"loop", "after", "done"} /\ response # None
          => /\ validator_calls = writes
             /\ output_artifact =
                  Some((IF language = PYTHON THEN PythonHeader ELSE <<>>)
                       \o response[1].generated_code))

C7_Witness ==
    /\ pc = "validate"
    /\ retries = 2
    /\ writes = 3
    /\ generated_code = CodeUnclosed
    /\ Contains(system_prompt, CodeAssign)

\* C8: when the session ends Exhausted, the logged error is the
\* error_message of the last ValidationResult the validator returned, and
\* the process exits with status 1.
C8_ExhaustedSurfacesLastError ==
    (pc = "done" /\ Exhausted)
        => /\ exit_code = 1
           /\ ~last_validation[1].is_valid
           /\ error_log =
                Some(<<"Generated code failed validation after ", "5",
                       " attempts. Last error: ">>
                     \o last_validation[1].error_message[1])

C8_Witness ==
    /\ pc = "done"
    /\ Exhausted
    /\ generated_code = CodeUnclosed
    /\ Contains(system_prompt, EmptyCodeMessage)

\* C9: with an unsupported language or an unset or empty API key the task
\* ends with a non-zero exit status and without any LLM call, validator call
\* or write of the output file.
C9_ConfigErrorBeforeGeneration ==
    (language \notin {"python", "java"} \/ env_api_key = None \/ env_api_key = Some(""))
        => /\ llm_calls = 0
           /\ validator_calls = 0
           /\ javac_runs = 0
           /\ writes = 0
           /\ output_artifact = None
           /\ last_request = None
           /\ pc \in {"cli", "start", "done"}
           /\ (pc = "done" => exit_code \in {1, 2})

C9_Witness ==
    pc = "done" /\ language = JAVA /\ env_api_key = Some("") /\ exit_code = 1

\* C10: the process exits with status zero exactly when the session ended
\* Succeeded; every other end of the task has a non-zero status.
C10_ExitZeroIffSucceeded ==
    /\ (pc = "done" => exit_code # -1 /\ (exit_code = 0 <=> success))
    /\ (pc # "done" => exit_code = -1)

C10_Witness == pc = "done" /\ exit_code = 0 /\ Succeeded /\ retries = 3

\* C11: in one session call_llm is invoked at most max_retries + 1 = 6
\* times, whatever the validation verdicts are.
C11_AtMostSixGenerationCalls == llm_calls <= 5 + 1

C11_Witness == llm_calls = 6 /\ pc = "done" /\ ~success /\ raised = ""

----------------------------------------------------------------------------
(* validate_generated_code on its own: one call on each input *)

\* no session of main is running
NoSession ==
    /\ pc = "idle"
    /\ language = PYTHON
    /\ target_type = "library"
    /\ dep_files_contents = <<>>
    /\ dep_docs_contents = <<>>
    /\ resource_file = <<>>
    /\ env_api_key = None
    /\ system_prompt = <<>>
    /\ retries = 0
    /\ success = FALSE
    /\ validation_result = None
    /\ response = None
    /\ generated_code = <<>>
    /\ output_artifact = None
    /\ last_request = None
    /\ llm_calls = 0
    /\ validator_calls = 0
    /\ javac_runs = 0
    /\ writes = 0
    /\ last_validation = None
    /\ last_javac = None
    /\ raised = ""
    /\ error_log = None
    /\ exit_code = -1

MainVars == <<pc, Config, system_prompt, retries, success, validation_result,
              response, generated_code, output_artifact, last_request,
              llm_calls, validator_calls, javac_runs, writes, last_validation,
              last_javac, raised, error_log, exit_code>>

\* code arguments
ValidatorCodes ==
    Codes \cup {CodeEmpty, CodeNewlineTab, CodeIndented, CodeEnum,
                CodeInterface, CodeClassy}

\* language arguments: the supported ones and one that is not
ValidatorLanguages == {PYTHON, JAVA, "ruby"}

\* output_file arguments: absent (the default) or a path
CompileContexts == {None, Some(OutputFile)}

\* outcomes of subprocess.run(javac): launch failure, exit 0 with or without
\* warnings, non-zero exit with every combination of empty / non-empty streams
ValidatorJavacOutcomes ==
    {[launch_error |-> TRUE, returncode |-> 0, stdout |-> <<>>, stderr |-> <<>>]}
    \cup
    {[launch_error |-> FALSE, returncode |-> 0, stdout |-> <<>>, stderr |-> e] :
        e \in {<<>>, <<"warning: [options] bootstrap class path not set">>}}
    \cup
    {[launch_error |-> FALSE, returncode |-> rc, stdout |-> o, stderr |-> e] :
        rc \in {1, 2},
        o \in {<<>>, <<"Note: Foo.java uses unchecked operations.">>},
        e \in {<<>>, <<"Foo.java:1: error: ';' expected">>}}

ValidatorInit ==
    /\ NoSession
    /\ \E code \in ValidatorCodes, lang \in ValidatorLanguages,
          out \in CompileContexts, javac \in ValidatorJavacOutcomes :
          probe = Some([fn |-> "validate_generated_code",
                        code |-> code,
                        language |-> lang,
                        output_file |-> out,
                        javac |-> javac,
                        result |-> None])

\* the call validate_generated_code(code, language, output_file, java_dep_jars)
ValidatorApply ==
    /\ probe # None
    /\ probe[1].fn = "validate_generated_code"
    /\ probe[1].result = None
    /\ probe' = Some([probe[1] EXCEPT !.result =
                        Some(validate_generated_code(probe[1].code,
                                                     probe[1].language,
                                                     probe[1].output_file,
                                                     probe[1].javac))])
    /\ UNCHANGED MainVars

ValidatorNext == ValidatorApply

ValidatorSpec == ValidatorInit /\ [][ValidatorNext]_vars

\* C12: for python and java and with or without output_file, empty or
\* whitespace-only code is invalid with the message "Generated code is
\* empty.", and neither the parser nor the compiler is invoked.
C12_EmptyCodeRejectedFirst ==
    (probe # None /\ probe[1].result # None)
        => LET c == probe[1]
               r == probe[1].result[1]
           IN (/\ c.language \in {"python", "java"}
               /\ \A i \in 1..Len(c.code) : c.code[i] \in {" ", "\n", "\t"})
                => /\ r.raised = ""
                   /\ r.result = [is_valid |-> FALSE,
                                  error_message |-> <<(<<"Generated code is empty.">>)>>]
                   /\ ~r.parsed
                   /\ ~r.compiled

C12_Witness ==
    /\ probe # None
    /\ probe[1].result # None
    /\ probe[1].code = CodeNewlineTab
    /\ probe[1].language = JAVA
    /\ probe[1].output_file # None
    /\ ~probe[1].result[1].result.is_valid

\* C13 as stated: for every code string an unsupported language makes
\* validate_generated_code raise; it never returns a ValidationResult.
C13_UnsupportedLanguageAlwaysRaises ==
    (probe # None /\ probe[1].result # None)
        => (probe[1].language \notin {"python", "java"}
              => probe[1].result[1].raised = "ValueError")

\* C13 amended: for code that is not empty or whitespace-only an unsupported
\* language makes validate_generated_code raise ValueError and no
\* ValidationResult is returned; for empty or whitespace-only code the
\* empty-code check comes first and returns the invalid result "Generated
\* code is empty." whatever the language.
C13_UnsupportedLanguageRaisesOnNonEmptyCode ==
    (probe # None /\ probe[1].result # None)
        => LET c == probe[1]
               r == probe[1].result[1]
               blank == \A i \in 1..Len(c.code) : c.code[i] \in {" ", "\n", "\t"}
           IN c.language \notin {"python", "java"}
                => IF blank
                   THEN /\ r.raised = ""
                        /\ r.result = [is_valid |-> FALSE,
                                       error_message |-> <<(<<"Generated code is empty.">>)>>]
                   ELSE /\ r.raised = "ValueError"
                        /\ ~r.parsed
                        /\ ~r.compiled

C13_Witness ==
    /\ probe # None
    /\ probe[1].result # None
    /\ probe[1].language = "ruby"
    /\ probe[1].code = CodeClass
    /\ probe[1].result[1].raised = "ValueError"

\* C14: every ValidationResult that validate_generated_code returns has an
\* error_message exactly when is_valid is false.
C14_MessageIffInvalid ==
    (probe # None /\ probe[1].result # None /\ probe[1].result[1].raised = "")
        => LET v == probe[1].result[1].result
           IN (v.error_message # <<>>) <=> ~v.is_valid

C14_Witness ==
    /\ probe # None
    /\ probe[1].result # None
    /\ probe[1].language = JAVA
    /\ probe[1].result[1].compiled
    /\ probe[1].javac.launch_error
    /\ probe[1].result[1].result.error_message # <<>>

C16_JavaValidIffCompilerExitsZero ==
    (probe # None /\ probe[1].result # None)
        => LET c == probe[1]
               r == probe[1].result[1]
               j == probe[1].javac
           IN (c.language = "java" /\ HasTypeKeyword(c.code))
                => /\ r.raised = ""
                   /\ ~r.parsed
                   /\ IF c.output_file # <<>>
                      THEN /\ r.compiled
                           /\ r.result.is_valid <=> (~j.launch_error /\ j.returncode = 0)
                           /\ (~j.launch_error /\ j.returncode # 0)
                                => r.result.error_message =
                                    <<(<<"Java compilation failed:\n">>
                                       \o (IF j.stdout = <<>> THEN <<>>
                                           ELSE <<"Compiler stdout: ">> \o j.stdout \o <<"\n">>)
                                       \o (IF j.stderr = <<>> THEN <<>>
                                           ELSE <<"Compiler stderr: ">> \o j.stderr))>>
                      ELSE /\ ~r.compiled
                           /\ r.result = [is_valid |-> TRUE, error_message |-> <<>>]

C16_Witness ==
    /\ probe # None
    /\ probe[1].result # None
    /\ probe[1].language = JAVA
    /\ probe[1].code = CodeInterface
    /\ probe[1].output_file # None
    /\ probe[1].javac.returncode = 2
    /\ probe[1].javac.stdout # <<>>
    /\ probe[1].javac.stderr # <<>>
    /\ ~probe[1].result[1].result.is_valid

\* C17: for java, code that is not blank and has none of "class ",
\* "interface ", "enum " is invalid with the message "Java code must contain
\* at least one class, interface, or enum.", and the compiler is not run,
\* with or without an output_file.
C17_JavaPrecheckRejectsWithoutCompiling ==
    (probe # None /\ probe[1].result # None)
        => LET c == probe[1]
               r == probe[1].result[1]
               blank == \A i \in 1..Len(c.code) : c.code[i] \in {" ", "\n", "\t"}
               keyword == \/ Contains(c.code, <<"c", "l", "a", "s", "s", " ">>)
                          \/ Contains(c.code, <<"i", "n", "t", "e", "r", "f", "a", "c", "e", " ">>)
                          \/ Contains(c.code, <<"e", "n", "u", "m", " ">>)
           IN (c.language = "java" /\ ~blank /\ ~keyword)
                => /\ r.raised = ""
                   /\ ~r.compiled
                   /\ r.result =
                        [is_valid |-> FALSE,
                         error_message |->
                            <<(<<"Java code must contain at least one class, interface, or enum.">>)>>]

C17_Witness ==
    /\ probe # None
    /\ probe[1].result # None
    /\ probe[1].language = JAVA
    /\ probe[1].code = CodeClassy
    /\ probe[1].output_file # None
    /\ ~probe[1].result[1].result.is_valid
    /\ ~probe[1].result[1].compiled

\* C18: every write of output_file leaves, for python, the two-line import
\* header naming the package followed by the generated code of that attempt
\* and, for java, exactly the generated code; when the session is Succeeded
\* the file holds the code that passed validation.
C18_ArtifactIsHeaderPlusCode ==
    /\ [][writes' = writes + 1
            => output_artifact' =
                 <<(IF language = "python"
                    THEN <<"# Usage: Import from this package using the following:\n",
                           "# from ", Package, " import <name to import>\n\n">>
                         \o generated_code
                    ELSE generated_code)>>]_vars
    /\ [](Succeeded
            => /\ last_validation # <<>>
               /\ last_validation[1].is_valid
               /\ response[1].generated_code = generated_code
               /\ output_artifact =
                    <<(IF language = "python"
                       THEN <<"# Usage: Import from this package using the following:\n",
                              "# from ", Package, " import <name to import>\n\n">>
                            \o generated_code
                       ELSE generated_code)>>)

C18_Witness ==
    /\ pc = "done"
    /\ Succeeded
    /\ language = PYTHON
    /\ llm_calls = 2
    /\ Contains(system_prompt, CodeUnclosed)
    /\ output_artifact = Some(PythonHeader \o CodeAssign)

\* C19: from one generation call to the next the task description, model,
\* temperature, max output tokens and response schema passed to call_llm are
\* the session's and do not change, and the system prompt only grows at its
\* end: the initial prompt and the prompt of each call is a prefix of the
\* prompt of the next call.
C19_OnlyPromptGrows ==
    /\ [](last_request # <<>>
            => LET q == last_request[1]
                   p0 == construct_system_prompt(language, dep_files_contents,
                            dep_docs_contents, OutputFile, Package,
                            resource_file, target_type).value
               IN /\ q.english_description = EnglishText
                  /\ q.model_name = LlmModel
                  /\ q.temperature = TemperatureTenths
                  /\ q.max_output_tokens = MaxOutputTokens
                  /\ q.response_schema = "GeneratedCode"
                  /\ Len(p0) <= Len(q.system_prompt)
                  /\ SubSeq(q.system_prompt, 1, Len(p0)) = p0)
    /\ [][(last_request # <<>> /\ llm_calls' = llm_calls + 1)
            => LET a == last_request[1]
                   b == last_request'[1]
               IN /\ b.english_description = a.english_description
                  /\ b.model_name = a.model_name
                  /\ b.temperature = a.temperature
                  /\ b.max_output_tokens = a.max_output_tokens
                  /\ b.response_schema = a.response_schema
                  /\ Len(a.system_prompt) <= Len(b.system_prompt)
                  /\ SubSeq(b.system_prompt, 1, Len(a.system_prompt))
                        = a.system_prompt]_vars

C19_Witness ==
    /\ pc = "write"
    /\ llm_calls = 3
    /\ Contains(last_request[1].system_prompt, CodeUnclosed)
    /\ Contains(last_request[1].system_prompt, CodeClass)

----------------------------------------------------------------------------
(* construct_system_prompt on its own: one call on each input *)

DepFile2 == <<"dep/Math.java", "class Math {}">>

ResourceFile2 == [parent |-> "res", stem |-> "words", suffix |-> ".csv"]

\* dep_files_contents arguments: no, one, two entries
PromptDeps == {<<>>, <<DepFile>>, <<DepFile, DepFile2>>}

\* dep_doc_contents arguments
PromptDocs == {<<>>, <<DepDoc>>}

\* resource_files arguments
PromptResources == {<<>>, <<ResourceFile>>, <<ResourceFile, ResourceFile2>>}

PromptInit ==
    /\ NoSession
    /\ \E lang \in {PYTHON, JAVA, "ruby"}, deps \in PromptDeps,
          docs \in PromptDocs, rs \in PromptResources,
          tt \in {"library", "binary"} :
          probe = Some([fn |-> "construct_system_prompt",
                        language |-> lang,
                        dep_files_contents |-> deps,
                        dep_doc_contents |-> docs,
                        output_file |-> OutputFile,
                        package |-> Package,
                        resource_files |-> rs,
                        target_type |-> tt,
                        result |-> None])

\* the call construct_system_prompt(language, ..., target_type)
PromptApply ==
    /\ probe # None
    /\ probe[1].fn = "construct_system_prompt"
    /\ probe[1].result = None
    /\ probe' = Some([probe[1] EXCEPT !.result =
                        Some(construct_system_prompt(probe[1].language,
                                probe[1].dep_files_contents,
                                probe[1].dep_doc_contents,
                                probe[1].output_file,
                                probe[1].package,
                                probe[1].resource_files,
                                probe[1].target_type))])
    /\ UNCHANGED MainVars

PromptNext == PromptApply

PromptSpec == PromptInit /\ [][PromptNext]_vars

\* C20: for python and java the prompt is the intro, then the dependencies,
\* then the documentation, then the resources, then the requirements; a
\* section appears exactly when its input is not empty, with one block per
\* entry; the binary instruction appears exactly for target_type "binary",
\* and the class-name and package instructions exactly for java.
C20_SectionsInFixedOrder ==
    (probe # None /\ probe[1].result # None /\ probe[1].language \in {"python", "java"})
        => LET c == probe[1]
               t == probe[1].result[1].value
               java == c.language = "java"
               At(x) == {i \in 1..Len(t) : t[i] = x}
               depHead == At(dependencies_section(c.language, <<DepFile>>)[1])
               depItems == At("# Dependency: ")
               docHead == At(documentation_section(<<DepDoc>>)[1])
               docItems == At("# Documentation: ")
               resHead == At(resource_files_section(<<ResourceFile>>)[1])
               resItems == At("# Resource file: ")
               req == At(IF java
                         THEN JavaRequirements(<<>>, "library", c.output_file, c.package)[1]
                         ELSE PyRequirements(<<>>, "library")[1])
               binary == At(IF java THEN JavaBinaryInstruction(<<"Foo">>)[1]
                            ELSE PyBinaryInstruction[1])
               Before(A, B) == \A i \in A, j \in B : i < j
           IN /\ probe[1].result[1].raised = ""
              /\ t[1] = (IF java THEN "You are a helpful assistant that translates English descriptions into Java code."
                         ELSE "You are a helpful assistant that translates English descriptions into Python code.")
              /\ Cardinality(depHead) = (IF c.dep_files_contents = <<>> THEN 0 ELSE 1)
              /\ Cardinality(depItems) = Len(c.dep_files_contents)
              /\ Cardinality(docHead) = (IF c.dep_doc_contents = <<>> THEN 0 ELSE 1)
              /\ Cardinality(docItems) = Len(c.dep_doc_contents)
              /\ Cardinality(resHead) = (IF c.resource_files = <<>> THEN 0 ELSE 1)
              /\ Cardinality(resItems) = Len(c.resource_files)
              /\ Cardinality(req) = 1
              /\ Before({1}, depHead \cup docHead \cup resHead \cup req)
              /\ Before(depHead, depItems)
              /\ Before(depHead \cup depItems, docHead \cup docItems)
              /\ Before(docHead, docItems)
              /\ Before(depHead \cup depItems \cup docHead \cup docItems,
                        resHead \cup resItems)
              /\ Before(resHead, resItems)
              /\ Before(depHead \cup depItems \cup docHead \cup docItems
                            \cup resHead \cup resItems, req)
              /\ Cardinality(binary) = (IF c.target_type = "binary" THEN 1 ELSE 0)
              /\ Before(req, binary)
              /\ Cardinality(At("\nCRITICAL: You MUST name the primary public class '"))
                    = (IF java THEN 1 ELSE 0)
              /\ Cardinality(At("\nCRITICAL: The Java code MUST start with 'package "))
                    = (IF java THEN 1 ELSE 0)
              /\ t[Len(t)] = (IF java THEN "\n\nGenerate Java code for the natural language description the user will provide.\n"
                              ELSE "\n\nGenerate Python code for the natural language description the user will provide.\n")

C20_Witness ==
    /\ probe # None
    /\ probe[1].result # None
    /\ probe[1].language = JAVA
    /\ probe[1].target_type = "binary"
    /\ Len(probe[1].dep_files_contents) = 2
    /\ probe[1].dep_doc_contents # <<>>
    /\ Len(probe[1].resource_files) = 2
    /\ probe[1].result[1].raised = ""

----------------------------------------------------------------------------
(* The feedback step and the loop exit of main *)

\* the piece every feedback block starts with
C21_FeedbackHeader == error_feedback(<<>>, <<>>)[1]

\* number of feedback blocks a prompt carries
C21_FeedbackBlocks(prompt) ==
    Cardinality({i \in DOMAIN prompt : prompt[i] = C21_FeedbackHeader})

\* C21: a failed attempt first increments retries; the feedback block is
\* appended to the prompt exactly when the incremented retries is below
\* max_retries, otherwise the prompt is left alone.  So a prompt never
\* carries more than max_retries - 1 feedback blocks, and a generation call
\* issued once retries has reached max_retries sends the same prompt as the
\* call before it.
C21_FeedbackOnlyWhileRetriesLeft ==
    /\ [](C21_FeedbackBlocks(system_prompt) <= max_retries - 1)
    /\ [][pc = "validate" /\ pc' = "loop" =>
            /\ retries' = retries + 1
            /\ IF retries' < max_retries
               THEN system_prompt' =
                        system_prompt
                        \o error_feedback(last_validation'[1].error_message[1],
                                          generated_code)
               ELSE system_prompt' = system_prompt]_vars
    /\ [][llm_calls' = llm_calls + 1 /\ retries >= max_retries =>
            last_request'[1].system_prompt = last_request[1].system_prompt]_vars

\* the call issued at retries = max_retries, its prompt carrying
\* max_retries - 1 feedback blocks
C21_Witness ==
    /\ pc = "write"
    /\ retries = max_retries
    /\ llm_calls = max_retries + 1
    /\ C21_FeedbackBlocks(last_request[1].system_prompt) = max_retries - 1

\* C22: when the loop has been left, either success is set, and then the
\* latest ValidationResult is valid and is the verdict on the code of the
\* latest generation call; or success is unset, and then the loop guard is
\* false, the latest ValidationResult is invalid and is the verdict on the
\* code of the latest generation call, and output_file still holds that
\* code; what follows the loop leaves output_file alone.
C22_LoopExitOutcomes ==
    /\ [](pc = "after" =>
            /\ validator_calls = llm_calls
            /\ response # None
            /\ response[1].generated_code = generated_code
            /\ validation_result # None
            /\ validation_result = last_validation
            /\ \E javac \in JavacOutcomes :
                  validation_result[1] =
                      validate_generated_code(
                          generated_code, language,
                          IF language = JAVA THEN Some(OutputFile) ELSE None,
                          javac).result
            /\ IF success
               THEN validation_result[1].is_valid
               ELSE /\ ~(retries <= max_retries)
                    /\ ~validation_result[1].is_valid
                    /\ output_artifact =
                           Some((IF language = PYTHON THEN PythonHeader ELSE <<>>)
                                \o generated_code))
    /\ [][pc = "after" => output_artifact' = output_artifact]_vars

\* the loop left by its guard, the rejected Java code still in output_file
C22_Witness ==
    /\ pc = "after"
    /\ ~success
    /\ language = JAVA
    /\ ~validation_result[1].is_valid
    /\ output_artifact = Some(generated_code)
    /\ generated_code = CodeUnclosed

----------------------------------------------------------------------------
(* generate_usage_description.py: the Javadoc block main puts in front of  *)
(* the raw header.  Text is a sequence of characters here.                 *)

\* longest usage description tried
MaxDescLen == 5

\* characters of a usage description returned by the LLM
UsageAlphabet == {"*", "/", "\n", " ", "a"}

UsageDescriptions == UNION {[1..n -> UsageAlphabet] : n \in 0..MaxDescLen}

\* contents of raw_header_file
RawHeaders == {<<"/", "/", "x", "\n">>, <<"/", "*", "x", "*", "/">>}

\* Python's str.replace(old, new) for a non-empty old: non-overlapping
\* occurrences, leftmost first
RECURSIVE str_replace(_, _, _)
str_replace(s, old, new) ==
    IF Len(s) < Len(old) THEN s
    ELSE IF SubSeq(s, 1, Len(old)) = old
         THEN new \o str_replace(SubSeq(s, Len(old) + 1, Len(s)), old, new)
         ELSE <<Head(s)>> \o str_replace(Tail(s), old, new)

\* mutant: the description's "*/" is not rewritten
javadoc_comment_NoEscape(usage_description) ==
    <<"/", "*", "*", "\n", "*", " ">>
    \o str_replace(usage_description, <<"\n">>, <<"\n", "*", " ">>)
    \o <<"\n", "*", "/", "\n">>

\* generate_usage_description.py:159-163
javadoc_comment(usage_description) ==
    <<"/", "*", "*", "\n", "*", " ">>
    \o str_replace(str_replace(usage_description, <<"\n">>, <<"\n", "*", " ">>),
                   <<"*", "/">>, <<"*", " ", "/">>)
    \o <<"\n", "*", "/", "\n">>

\* generate_usage_description.py:164
formatted_output(usage_description, raw_header_content) ==
    javadoc_comment(usage_description) \o raw_header_content

JavadocInit ==
    /\ NoSession
    /\ \E d \in UsageDescriptions, h \in RawHeaders :
          probe = Some([fn |-> "javadoc_comment",
                        usage_description |-> d,
                        raw_header_content |-> h,
                        result |-> None])

\* generate_usage_description.py:153-168: format the description and emit
\* it in front of the raw header
JavadocApply ==
    /\ probe # None
    /\ probe[1].fn = "javadoc_comment"
    /\ probe[1].result = None
    /\ probe' = Some([probe[1] EXCEPT !.result =
                        Some([javadoc_comment |->
                                  javadoc_comment(probe[1].usage_description),
                              formatted_output |->
                                  formatted_output(probe[1].usage_description,
                                                   probe[1].raw_header_content)])])
    /\ UNCHANGED MainVars

JavadocNext == JavadocApply

JavadocSpec == JavadocInit /\ [][JavadocNext]_vars

\* positions of text where the comment terminator starts
C23_Terminators(text) ==
    {i \in 1..(Len(text) - 1) : text[i] = "*" /\ text[i + 1] = "/"}

\* C23: whatever the usage description, the Javadoc block holds the comment
\* terminator exactly once, as its last line, and the raw header content
\* follows that line directly in the emitted text.
C23_JavadocClosedOnlyAtEnd ==
    (probe # None /\ probe[1].fn = "javadoc_comment" /\ probe[1].result # None) =>
        LET block == probe[1].result[1].javadoc_comment
            out == probe[1].result[1].formatted_output
        IN /\ C23_Terminators(block) = {Len(block) - 2}
           /\ block[Len(block)] = "\n"
           /\ out = block \o probe[1].raw_header_content

\* a description that itself holds a terminator, starts with "/" after a
\* line break and ends with "*"
C23_Witness ==
    /\ probe # None
    /\ probe[1].fn = "javadoc_comment"
    /\ probe[1].result # None
    /\ probe[1].usage_description = <<"*", "/", "\n", "/", "*">>
    /\ SubSeq(probe[1].result[1].javadoc_comment, 7, 9) = <<"*", " ", "/">>

====
